---- MODULE Spec2Model ----
(***************************************************************************)
(* Model of the climate and hazard risk engine of Foundry:                 *)
(*   src/src/foundry/data_pipeline/fetchers/climate.py (ClimateService),   *)
(*   src/src/foundry/data_pipeline/fetchers/disasters.py (DisasterService),*)
(*   src/src/foundry/data_pipeline/orchestrator.py (get_city_profile,      *)
(*   _format_disaster_data, _get_risk_summary).                            *)
(*                                                                         *)
(* Numbers.  Python floats are modelled as integers in a fixed unit:       *)
(*   - scores, weights, the composite score, rainfall, ET0, temperatures   *)
(*     and every value the code rounds to one decimal are in TENTHS        *)
(*     (7.5 is 75);                                                        *)
(*   - raw event magnitudes, raw distances and the unrounded steep-terrain *)
(*     percentage are in HUNDREDTHS (6.95 is 695);                         *)
(*   - elevations are whole metres, coordinates whole degrees, times       *)
(*     tenths of a second.                                                 *)
(* round(x, 1) is modelled by PyRound, which rounds an exact quotient to   *)
(* the nearest tenth and resolves ties as CPython does.  The input domains *)
(* are chosen so that the double arithmetic of the code is exact or its    *)
(* error cannot change a comparison or a rounding.                         *)
(***************************************************************************)
EXTENDS Integers, Sequences, FiniteSets, TLC

VARIABLES
    pc,                 \* next call of the running method / the formatter
    lat, lon,           \* site coordinates (arguments of get_disaster_profile)
    elevation_grid,     \* sequence of elevation_meters, one per ElevationResult
    climate_profile,    \* the ClimateProfile argument (fields the engine reads)
    usgs_response,      \* what the USGS catalog answers to the query of line 146
    earthquake, tsunami, cyclone, flood, drought, landslide,  \* hazard records
    overall_risk_score, \* ComprehensiveDisasterProfile.overall_risk_score (tenths)
    formatted,          \* dict returned by _format_disaster_data
    error,              \* exception that left the running method, if any
    entry,              \* the public method that was called
    archive_response,   \* what the weather archive answers (climate.py 129)
    profile,            \* ClimateProfile returned by get_climate_profile
    now,                \* time.time(), tenths of a second
    last_request_time,  \* ClimateService.last_request_time, tenths of a second
    request_times,      \* <<start, end>> of every weather-archive request so far
    log                 \* network fetches and computations, in program order

vars == <<pc, lat, lon, elevation_grid, climate_profile, usgs_response,
          earthquake, tsunami, cyclone, flood, drought, landslide,
          overall_risk_score, formatted, error,
          entry, archive_response, profile, now, last_request_time,
          request_times, log>>

inputs == <<lat, lon, elevation_grid, climate_profile, usgs_response>>

hazards == <<earthquake, tsunami, cyclone, flood, drought, landslide>>

\* the state of get_climate_profile and of its service object
climateSide == <<entry, archive_response, profile, now, last_request_time,
                 request_times>>

hazardSet == {earthquake, tsunami, cyclone, flood, drought, landslide}

None == "None"

Levels == {"very_low", "low", "moderate", "high", "very_high"}

HazardNames == {"earthquake", "tsunami", "cyclone", "flood", "drought", "landslide"}

\* entries of log: a request sent to an external service, and the start of
\* a computation of the engine
Fetch(what) == <<"fetch", what>>

Compute(what) == <<"compute", what>>

----------------------------------------------------------------------------
(* Arithmetic helpers                                                      *)

Abs(x) == IF x < 0 THEN -x ELSE x

Max2(a, b) == IF a >= b THEN a ELSE b

Min2(a, b) == IF a <= b THEN a ELSE b

RECURSIVE SumSeq(_)
SumSeq(s) == IF s = <<>> THEN 0 ELSE Head(s) + SumSeq(Tail(s))

RECURSIVE MaxSeq(_)
MaxSeq(s) == IF Len(s) = 1 THEN s[1] ELSE Max2(Head(s), MaxSeq(Tail(s)))

RECURSIVE MinSeq(_)
MinSeq(s) == IF Len(s) = 1 THEN s[1] ELSE Min2(Head(s), MinSeq(Tail(s)))

RECURSIVE SumOver(_, _)
SumOver(f, S) ==
    IF S = {} THEN 0
    ELSE LET k == CHOOSE x \in S : TRUE IN f[k] + SumOver(f, S \ {k})

(* round(x, 1) of a double x whose exact value lies halfway between two    *)
(* tenths can only happen when x is a binary fraction (x.25, x.75); when   *)
(* the decimal value h/100 ends in 5 but is not a binary fraction, the     *)
(* double nearest to it lies above or below the decimal and round() follows *)
(* the double.  TieRoundsUp lists the hundredths h = 5, 15, .., 995 for     *)
(* which CPython's round(h/100, 1) gives the upper tenth (for x.25 / x.75   *)
(* this is round-half-to-even).                                             *)
TieRoundsUp ==
    {5, 45, 55, 65, 75, 105, 135, 155, 175, 185, 235, 245, 275, 285, 295,
     335, 345, 375, 385, 395, 415, 445, 465, 475, 495, 515, 545, 565, 575,
     595, 615, 645, 665, 675, 695, 715, 745, 765, 775, 795, 805, 815, 855,
     865, 875, 905, 915, 955, 965, 975}

TieTableMax == 1000

(* round(num/den) to the nearest integer (the caller scales so that the     *)
(* unit is the last kept decimal), as CPython's round(x, 1) does on the     *)
(* double nearest to the exact quotient.  A tie at h hundredths is resolved *)
(* by TieRoundsUp inside the table, and half-to-even beyond it, where the   *)
(* inputs of this model only produce binary-fraction ties.                  *)
PyRound(num, den) ==
    LET q == num \div den
        r == num % den
        h == 10 * q + 5
    IN  IF 2 * r < den THEN q
        ELSE IF 2 * r > den THEN q + 1
        ELSE IF 0 <= h /\ h <= TieTableMax
             THEN (IF h \in TieRoundsUp THEN q + 1 ELSE q)
             ELSE (IF q % 2 = 0 THEN q ELSE q + 1)

----------------------------------------------------------------------------
(* SeriesAggregator: climate.py 133-280                                    *)
(*                                                                         *)
(* The "daily" object of the archive answer is a record of columns of      *)
(* equal length; a date is [year, month] (the day of the month is never    *)
(* read), a missing reading (JSON null, Python None) is Null.  Units:      *)
(* temperatures, precipitation, ET0, wind speeds and solar radiation in    *)
(* tenths; wind direction in degrees; humidity in percent; soil moisture   *)
(* in thousandths.                                                         *)

\* a reading that is None (climate.py 136: "if t is not None")
Null == -1000000

\* climate.py 66-69
months ==
    <<"January", "February", "March", "April", "May", "June",
      "July", "August", "September", "October", "November", "December">>

\* variant: a missing reading counted as 0 instead of being dropped
none_as_zero(values) == [i \in 1..Len(values) |-> IF values[i] = Null THEN 0 ELSE values[i]]

\* [v for v in values if v is not None]
not_none(values) == SelectSeq(values, LAMBDA v : v # Null)

\* statistics.mean of a non-empty list, as the exact fraction <<num, den>>
mean(values) == <<SumSeq(values), Len(values)>>

\* round(num / den) to a whole unit, ties to the even neighbour: Python's
\* round on a double that holds the quotient exactly
RoundHalfEven(num, den) ==
    LET q == num \div den
        r == num % den
    IN  IF 2 * r < den THEN q
        ELSE IF 2 * r > den THEN q + 1
        ELSE IF q % 2 = 0 THEN q ELSE q + 1

RECURSIVE SumAt(_, _)
SumAt(values, I) ==
    IF I = {} THEN 0
    ELSE LET i == CHOOSE x \in I : TRUE IN values[i] + SumAt(values, I \ {i})

\* indices that zip(dates, values) visits and does not skip (lines 237-239)
kept(dates, values) ==
    {i \in 1..Min2(Len(dates), Len(values)) : values[i] # Null}

\* lines 233-243: the keys of yearly_totals
rain_years(dates, values) == {dates[i].year : i \in kept(dates, values)}

\* lines 233-243: yearly_totals as a function of the year
_calculate_yearly_rainfall(dates, values) ==
    [y \in rain_years(dates, values) |->
        SumAt(values, {i \in kept(dates, values) : dates[i].year = y})]

\* variant: the mean is taken over every year of the window, also those
\* whose readings are all missing
annual_rainfall_all_years(dates, values) ==
    LET yearly == _calculate_yearly_rainfall(dates, values)
        window == {dates[i].year : i \in 1..Len(dates)}
    IN  IF DOMAIN yearly # {}
        THEN <<SumOver(yearly, DOMAIN yearly), Cardinality(window)>>
        ELSE <<0, 1>>

\* line 147: mean(yearly_rainfall) if yearly_rainfall else 0.0
annual_rainfall(dates, values) ==
    LET yearly == _calculate_yearly_rainfall(dates, values)
    IN  IF DOMAIN yearly # {}
        THEN <<SumOver(yearly, DOMAIN yearly), Cardinality(DOMAIN yearly)>>
        ELSE <<0, 1>>

\* lines 247-254: monthly_data[month_name] as a function of the year
month_totals(dates, values, m) ==
    LET I == {i \in kept(dates, values) : dates[i].month = m}
    IN  [y \in {dates[i].year : i \in I} |->
            SumAt(values, {i \in I : dates[i].year = y})]

\* variant: a month without data maps to None instead of 0.0
monthly_rainfall_none(dates, values) ==
    [m \in 1..12 |->
        LET t == month_totals(dates, values, m)
        IN  <<months[m],
              IF DOMAIN t # {}
              THEN PyRound(SumOver(t, DOMAIN t), Cardinality(DOMAIN t))
              ELSE Null>>]

\* lines 245-264: the dict as the sequence of its (key, value) items
_calculate_monthly_rainfall(dates, values) ==
    [m \in 1..12 |->
        LET t == month_totals(dates, values, m)
        IN  <<months[m],
              IF DOMAIN t # {}
              THEN PyRound(SumOver(t, DOMAIN t), Cardinality(DOMAIN t))
              ELSE 0>>]

\* lines 266-280
_calculate_monthly_temp_averages(dates, values) ==
    [m \in 1..12 |->
        LET I == {i \in kept(dates, values) : dates[i].month = m}
        IN  <<months[m],
              IF I # {} THEN PyRound(SumAt(values, I), Cardinality(I)) ELSE 0>>]

\* variant: a later item replaces the best one also when it only equals it
RECURSIVE max_key_last(_, _)
max_key_last(d, best) ==
    IF d = <<>> THEN best[1]
    ELSE max_key_last(Tail(d), IF Head(d)[2] >= best[2] THEN Head(d) ELSE best)

\* max(d, key=d.get) of lines 161 and 163: the scan keeps the first item
\* and replaces it only by a strictly larger one
RECURSIVE max_key_scan(_, _)
max_key_scan(d, best) ==
    IF d = <<>> THEN best[1]
    ELSE max_key_scan(Tail(d), IF Head(d)[2] > best[2] THEN Head(d) ELSE best)

max_key(d) == max_key_scan(Tail(d), Head(d))

\* min(d, key=d.get) of lines 162 and 164
RECURSIVE min_key_scan(_, _)
min_key_scan(d, best) ==
    IF d = <<>> THEN best[1]
    ELSE min_key_scan(Tail(d), IF Head(d)[2] < best[2] THEN Head(d) ELSE best)

min_key(d) == min_key_scan(Tail(d), Head(d))

\* d.values() of an insertion-ordered dict
dict_values(d) == [i \in 1..Len(d) |-> d[i][2]]

\* the exception that leaves lines 135-214, or None: statistics.mean of an
\* empty list raises StatisticsError, max of an empty list ValueError
climate_error(data) ==
    LET empty(column) == not_none(data[column]) = <<>>
    IN  IF empty("temperature_2m_max") \/ empty("temperature_2m_min")
           \/ empty("wind_speed_10m_max")
        THEN "StatisticsError"
        ELSE IF empty("wind_gusts_10m_max")
        THEN "ValueError"
        ELSE IF \/ empty("wind_direction_10m_dominant")
                \/ empty("shortwave_radiation_sum")
                \/ empty("relative_humidity_2m_mean")
                \/ empty("relative_humidity_2m_max")
                \/ empty("relative_humidity_2m_min")
                \/ empty("soil_moisture_0_to_7cm_mean")
                \/ not_none(data.soil_moisture_7_to_28cm_mean)
                       \o not_none(data.soil_moisture_28_to_100cm_mean) = <<>>
                \/ empty("soil_temperature_0_to_7cm_mean")
        THEN "StatisticsError"
        ELSE None

\* variant: a day counts for the temperature statistics only when its wind
\* reading is present too
temps_of_windy_days(data, column) ==
    [i \in 1..Len(data[column]) |->
        IF data.wind_speed_10m_max[i] # Null THEN data[column][i] ELSE Null]

\* the column that lines 136, 137 and 155-158 read
temps_column(data, column) == data[column]

\* lines 135-231: the ClimateProfile built from a "daily" object for which
\* climate_error is None
climate_profile_of(data) ==
    LET temps_max == not_none(temps_column(data, "temperature_2m_max"))
        temps_min == not_none(temps_column(data, "temperature_2m_min"))
        annual_temp_max == mean(temps_max)
        annual_temp_min == mean(temps_min)
        rain == annual_rainfall(data.time, data.precipitation_sum)
        monthly_rainfall ==
            _calculate_monthly_rainfall(data.time, data.precipitation_sum)
        monthly_temps_max ==
            _calculate_monthly_temp_averages(
                data.time, temps_column(data, "temperature_2m_max"))
        wind_speeds == not_none(data.wind_speed_10m_max)
        wind_gusts == not_none(data.wind_gusts_10m_max)
        wind_dirs == not_none(data.wind_direction_10m_dominant)
        solar_radiation == not_none(data.shortwave_radiation_sum)
        humidity_mean == not_none(data.relative_humidity_2m_mean)
        humidity_max == not_none(data.relative_humidity_2m_max)
        humidity_min == not_none(data.relative_humidity_2m_min)
        soil_0_7 == not_none(data.soil_moisture_0_to_7cm_mean)
        soil_7_100_combined ==
            not_none(data.soil_moisture_7_to_28cm_mean)
                \o not_none(data.soil_moisture_28_to_100cm_mean)
        soil_temp == not_none(data.soil_temperature_0_to_7cm_mean)
        et0_values == not_none(data.et0_fao_evapotranspiration)
    IN  [annual_temp_avg_c |->
             \* (annual_temp_max + annual_temp_min) / 2
             PyRound(annual_temp_max[1] * annual_temp_min[2]
                         + annual_temp_min[1] * annual_temp_max[2],
                     2 * annual_temp_max[2] * annual_temp_min[2]),
         annual_temp_max_c |-> PyRound(annual_temp_max[1], annual_temp_max[2]),
         annual_temp_min_c |-> PyRound(annual_temp_min[1], annual_temp_min[2]),
         hottest_month |-> max_key(monthly_temps_max),
         coldest_month |-> min_key(monthly_temps_max),
         annual_rainfall_mm |-> PyRound(rain[1], rain[2]),
         wettest_month |-> max_key(monthly_rainfall),
         driest_month |-> min_key(monthly_rainfall),
         rainfall_by_month |-> monthly_rainfall,
         wind |->
             [avg_speed_kmh |-> PyRound(SumSeq(wind_speeds), Len(wind_speeds)),
              max_gust_kmh |-> MaxSeq(wind_gusts),
              dominant_direction_degrees |->
                  RoundHalfEven(SumSeq(wind_dirs), Len(wind_dirs))],
         solar |->
             [annual_radiation_sum_mj_m2 |-> SumSeq(solar_radiation),
              \* mean * 1000000 / 3600, tenths of a W/m2
              avg_daily_radiation_wm2 |->
                  PyRound(SumSeq(solar_radiation) * 2500,
                          9 * Len(solar_radiation))],
         humidity |->
             [avg_relative_humidity_percent |->
                  PyRound(10 * SumSeq(humidity_mean), Len(humidity_mean)),
              max_relative_humidity_percent |->
                  PyRound(10 * SumSeq(humidity_max), Len(humidity_max)),
              min_relative_humidity_percent |->
                  PyRound(10 * SumSeq(humidity_min), Len(humidity_min))],
         soil |->
             [avg_moisture_0_7cm |->
                  RoundHalfEven(SumSeq(soil_0_7), Len(soil_0_7)),
              avg_moisture_7_100cm |->
                  RoundHalfEven(SumSeq(soil_7_100_combined),
                                Len(soil_7_100_combined)),
              avg_temp_0_7cm_c |-> PyRound(SumSeq(soil_temp), Len(soil_temp))],
         annual_et0_mm |-> SumSeq(et0_values)]

\* the fields of a ClimateProfile that DisasterService reads
\* (disasters.py 282-351), rainfall_by_month as .values()
disaster_view(p) ==
    [annual_rainfall_mm |-> p.annual_rainfall_mm,
     annual_et0_mm      |-> p.annual_et0_mm,
     rainfall_by_month  |-> dict_values(p.rainfall_by_month)]

\* climate.py 71, tenths of a second
min_request_interval == 10

\* how long requests.get takes, tenths of a second
RequestDurations == {2}

\* climate.py 124-131: the rate limit, the request, raise_for_status
ClimateRequest ==
    /\ pc = "climate_request"
    /\ LET elapsed == now - last_request_time
           sent == IF elapsed < min_request_interval
                   THEN now + (min_request_interval - elapsed)  \* time.sleep
                   ELSE now
       IN  \E d \in RequestDurations :
             /\ now' = sent + d
             /\ request_times' = Append(request_times, <<sent, sent + d>>)
             /\ IF archive_response.outcome = "exception"
                THEN \* requests.get raises: line 130 is not reached
                     /\ pc' = "raised"
                     /\ error' = "ConnectionError"
                     /\ UNCHANGED last_request_time
                ELSE /\ last_request_time' = sent + d
                     /\ IF archive_response.outcome = "http_error"
                        THEN pc' = "raised" /\ error' = "HTTPError"
                        ELSE pc' = "climate_aggregate" /\ UNCHANGED error
    /\ log' = Append(log, Fetch("weather_archive"))
    /\ UNCHANGED <<inputs, hazards, overall_risk_score, formatted,
                   entry, archive_response, profile>>

\* climate.py 133-231; get_city_profile hands the profile on to
\* get_disaster_profile (orchestrator.py 77, 93)
ClimateAggregate ==
    /\ pc = "climate_aggregate"
    /\ LET data == archive_response.daily
       IN  IF climate_error(data) # None
           THEN /\ pc' = "raised"
                /\ error' = climate_error(data)
                /\ UNCHANGED <<profile, climate_profile>>
           ELSE /\ profile' = climate_profile_of(data)
                /\ IF entry = "get_city_profile"
                   THEN /\ climate_profile' = disaster_view(climate_profile_of(data))
                        /\ pc' = "soil"
                   ELSE /\ UNCHANGED climate_profile
                        /\ pc' = "returned"
                /\ UNCHANGED error
    /\ log' = Append(log, Compute("climate"))
    /\ UNCHANGED <<lat, lon, elevation_grid, usgs_response, hazards,
                   overall_risk_score, formatted,
                   entry, archive_response, now, last_request_time,
                   request_times>>

NextClimate == ClimateRequest \/ ClimateAggregate

----------------------------------------------------------------------------
(* CatalogRiskAssessor, earthquake: disasters.py 129-195                   *)
(*                                                                         *)
(* usgs_response is [status, features]; a feature is [mag, dist] where mag *)
(* is properties.mag in hundredths and dist is the value, in hundredths of *)
(* a km, that _haversine_distance(lat, lon, ..) returns for the feature's  *)
(* coordinates (the trigonometry itself is not modelled).                  *)
(* The query asks for minmagnitude 4.0 and orderby magnitude (lines 142,   *)
(* 143), so features carry magnitudes >= 4.0, largest first.               *)

EarthquakeRisk(total, last100, max_mag, avg_mag, nearest, level) ==
    [total_events      |-> total,
     events_last_100yr |-> last100,
     max_magnitude     |-> max_mag,
     avg_magnitude     |-> avg_mag,
     nearest_event_km  |-> nearest,
     risk_level        |-> level]

\* line 162: [e["properties"]["mag"] for e in events if e["properties"]["mag"]]
magnitudes(events) ==
    LET mags == [i \in 1..Len(events) |-> events[i].mag]
    IN  SelectSeq(mags, LAMBDA m : m # 0)

\* lines 167-174: min(self._haversine_distance(..) for e in events)
nearest_dist(events) == MinSeq([i \in 1..Len(events) |-> events[i].dist])

\* variant: magnitude thresholds taken strict (max_mag > 7.0, ...)
earthquake_risk_level_strict(max_mag, n_events) ==
    IF max_mag > 700 \/ n_events > 50 THEN "very_high"
    ELSE IF max_mag > 600 \/ n_events > 20 THEN "high"
    ELSE IF max_mag > 500 \/ n_events > 10 THEN "moderate"
    ELSE IF n_events > 5 THEN "low"
    ELSE "very_low"

\* lines 176-186; max_mag in hundredths
earthquake_risk_level(max_mag, n_events) ==
    IF max_mag >= 700 \/ n_events > 50 THEN "very_high"
    ELSE IF max_mag >= 600 \/ n_events > 20 THEN "high"
    ELSE IF max_mag >= 500 \/ n_events > 10 THEN "moderate"
    ELSE IF n_events > 5 THEN "low"
    ELSE "very_low"

\* variant: nearest_event_km 0.0 instead of the 999.0 sentinel
no_events_record_zero == EarthquakeRisk(0, 0, 0, 0, 0, "very_low")

\* lines 153-160: the record returned when there are no events
no_events_record == EarthquakeRisk(0, 0, 0, 0, 9990, "very_low")

\* lines 149-195: the part of _assess_earthquake_risk after the response
earthquake_record(events) ==
    IF Len(events) = 0
    THEN no_events_record
    ELSE LET mags    == magnitudes(events)
             max_mag == MaxSeq(mags)
         IN  EarthquakeRisk(Len(events), Len(events),
                            PyRound(max_mag, 10),
                            PyRound(SumSeq(mags), 10 * Len(mags)),
                            PyRound(nearest_dist(events), 10),
                            earthquake_risk_level(max_mag, Len(events)))

\* variant: a failed catalog query is recorded and the call goes on with the
\* record of an empty catalog
_assess_earthquake_risk_swallow ==
    /\ pc = "earthquake"
    /\ IF usgs_response.status >= 400
       THEN /\ earthquake' = no_events_record
            /\ error' = "HTTPError"
       ELSE /\ earthquake' = earthquake_record(usgs_response.features)
            /\ UNCHANGED error
    /\ pc' = "tsunami"
    /\ log' = log \o <<Fetch("seismic_catalog"), Compute("earthquake")>>
    /\ UNCHANGED <<inputs, tsunami, cyclone, flood, drought, landslide,
                   overall_risk_score, formatted, climateSide>>

_assess_earthquake_risk ==
    /\ pc = "earthquake"
    /\ IF usgs_response.status >= 400
       THEN \* line 147: response.raise_for_status()
            /\ pc' = "raised"
            /\ error' = "HTTPError"
            /\ UNCHANGED earthquake
       ELSE IF Len(usgs_response.features) > 0
               /\ magnitudes(usgs_response.features) = <<>>
       THEN \* line 163: max() of an empty list
            /\ pc' = "raised"
            /\ error' = "ValueError"
            /\ UNCHANGED earthquake
       ELSE /\ earthquake' = earthquake_record(usgs_response.features)
            /\ pc' = "tsunami"
            /\ UNCHANGED error
    /\ log' = IF usgs_response.status >= 400
              THEN Append(log, Fetch("seismic_catalog"))
              ELSE log \o <<Fetch("seismic_catalog"), Compute("earthquake")>>
    /\ UNCHANGED <<inputs, tsunami, cyclone, flood, drought, landslide,
                   overall_risk_score, formatted, climateSide>>

----------------------------------------------------------------------------
(* CatalogRiskAssessor, tsunami and cyclone: disasters.py 197-280          *)

TsunamiRisk(coastal, nearest, events, level) ==
    [coastal_city        |-> coastal,
     nearest_event_km    |-> nearest,
     events_within_500km |-> events,
     risk_level          |-> level]

\* lines 207-211: (lat_min, lat_max, lon_min, lon_max)
tsunami_zones ==
    << <<-60, 60, 90, 180>>,
       <<-40, 30, 40, 120>>,
       <<10, 30, -90, -60>> >>

\* lines 214 and 251: lat_min <= lat <= lat_max and lon_min <= lon <= lon_max
in_box(la, lo, box) ==
    box[1] <= la /\ la <= box[2] /\ box[3] <= lo /\ lo <= box[4]

\* variant: all() instead of any()
coastal_all(grid) == \A i \in 1..Len(grid) : grid[i] < 10

\* line 203
coastal(grid) == \E i \in 1..Len(grid) : grid[i] < 10

\* lines 213-216
in_tsunami_zone(la, lo) ==
    \E i \in 1..Len(tsunami_zones) : in_box(la, lo, tsunami_zones[i])

\* lines 218-233
tsunami_record(la, lo, grid) ==
    LET c == coastal(grid)
        risk == IF c /\ in_tsunami_zone(la, lo) THEN "high"
                ELSE IF c THEN "moderate"
                ELSE "very_low"
        events == IF c /\ in_tsunami_zone(la, lo) THEN 3
                  ELSE IF c THEN 1
                  ELSE 0
    IN  TsunamiRisk(c, IF c THEN 1000 ELSE 9990, events, risk)

_assess_tsunami_risk ==
    /\ pc = "tsunami"
    /\ tsunami' = tsunami_record(lat, lon, elevation_grid)
    /\ pc' = "cyclone"
    /\ log' = Append(log, Compute("tsunami"))
    /\ UNCHANGED <<inputs, earthquake, cyclone, flood, drought, landslide,
                   overall_risk_score, formatted, error, climateSide>>

CycloneRisk(events, frequency, max_cat, avg_wind, level) ==
    [events_50yr          |-> events,
     frequency_per_decade |-> frequency,
     max_category         |-> max_cat,
     avg_wind_speed_kmh   |-> avg_wind,
     risk_level           |-> level]

\* variant: northern hemisphere only (no abs)
in_cyclone_belt_north(la) == 5 <= la /\ la <= 30

\* line 241
in_cyclone_belt(la) == 5 <= Abs(la) /\ Abs(la) <= 30

\* lines 244-248
cyclone_regions ==
    [atlantic |-> <<10, 30, -100, -20>>,
     pacific  |-> <<5, 30, 100, -80>>,
     indian   |-> <<-30, 30, 40, 120>>]

\* lines 250-253
in_basin(la, lo) ==
    \E name \in DOMAIN cyclone_regions : in_box(la, lo, cyclone_regions[name])

\* lines 255-280; frequency in tenths, avg_wind in km/h
cyclone_record(la, lo) ==
    IF in_cyclone_belt(la) /\ in_basin(la, lo)
    THEN CycloneRisk(15, 30, 4, 150, "high")
    ELSE IF in_basin(la, lo)
    THEN CycloneRisk(5, 10, 2, 100, "moderate")
    ELSE CycloneRisk(0, 0, 0, 0, "very_low")

_assess_cyclone_risk ==
    /\ pc = "cyclone"
    /\ cyclone' = cyclone_record(lat, lon)
    /\ pc' = "flood"
    /\ log' = Append(log, Compute("cyclone"))
    /\ UNCHANGED <<inputs, earthquake, tsunami, flood, drought, landslide,
                   overall_risk_score, formatted, error, climateSide>>

----------------------------------------------------------------------------
(* DerivedRiskAssessor: disasters.py 282-365                               *)
(*                                                                         *)
(* climate_profile is [annual_rainfall_mm, annual_et0_mm,                  *)
(* rainfall_by_month], all in tenths of a mm, rainfall_by_month a sequence *)
(* of twelve values, January first.                                        *)

FloodRisk(low_pct, rainfall, intensity, drainage, level) ==
    [low_elevation_percent |-> low_pct,
     annual_rainfall_mm    |-> rainfall,
     wet_season_intensity  |-> intensity,
     drainage_capacity     |-> drainage,
     risk_level            |-> level]

\* variant: samples at exactly 10 m counted as low
low_areas_inclusive(grid) == Cardinality({i \in 1..Len(grid) : grid[i] <= 10})

\* line 285
low_areas(grid) == Cardinality({i \in 1..Len(grid) : grid[i] < 10})

\* line 286, compared with a whole percentage t:
\* (low_areas / len(elevation_grid)) * 100 > t
low_percent_above(grid, t) == low_areas(grid) * 100 > t * Len(grid)

\* variant: 0.0 reported when the mean monthly rainfall is zero
wet_intensity_zero_sentinel(climate) ==
    IF climate.annual_rainfall_mm > 0
    THEN PyRound(120 * MaxSeq(climate.rainfall_by_month),
                 climate.annual_rainfall_mm)
    ELSE 0

\* lines 289-291 and 310, tenths: max_monthly / (annual_rainfall_mm / 12)
wet_intensity(climate) ==
    IF climate.annual_rainfall_mm > 0
    THEN PyRound(120 * MaxSeq(climate.rainfall_by_month),
                 climate.annual_rainfall_mm)
    ELSE 10

\* variant: the last row of the table answers very_low
flood_drainage_risk_very_low(grid, climate) ==
    IF climate.annual_rainfall_mm > 15000 /\ low_percent_above(grid, 50)
    THEN <<"poor", "very_high">>
    ELSE IF climate.annual_rainfall_mm > 10000 \/ low_percent_above(grid, 30)
    THEN <<"moderate", "high">>
    ELSE IF climate.annual_rainfall_mm > 5000
    THEN <<"good", "moderate">>
    ELSE <<"good", "very_low">>

\* lines 293-305: <<drainage, risk>>
flood_drainage_risk(grid, climate) ==
    IF climate.annual_rainfall_mm > 15000 /\ low_percent_above(grid, 50)
    THEN <<"poor", "very_high">>
    ELSE IF climate.annual_rainfall_mm > 10000 \/ low_percent_above(grid, 30)
    THEN <<"moderate", "high">>
    ELSE IF climate.annual_rainfall_mm > 5000
    THEN <<"good", "moderate">>
    ELSE <<"good", "low">>

\* lines 307-313
flood_record(grid, climate) ==
    LET dr == flood_drainage_risk(grid, climate)
    IN  FloodRisk(PyRound(low_areas(grid) * 1000, Len(grid)),
                  climate.annual_rainfall_mm,
                  wet_intensity(climate),
                  dr[1], dr[2])

_assess_flood_risk ==
    /\ pc = "flood"
    /\ IF Len(elevation_grid) = 0
       THEN \* line 286: division by len(elevation_grid) = 0
            /\ pc' = "raised"
            /\ error' = "ZeroDivisionError"
            /\ UNCHANGED flood
       ELSE /\ flood' = flood_record(elevation_grid, climate_profile)
            /\ pc' = "drought"
            /\ UNCHANGED error
    /\ log' = Append(log, Compute("flood"))
    /\ UNCHANGED <<inputs, earthquake, tsunami, cyclone, drought, landslide,
                   overall_risk_score, formatted, climateSide>>

DroughtRisk(deficit, dry, level) ==
    [water_deficit_mm  |-> deficit,
     dry_season_months |-> dry,
     risk_level        |-> level]

\* variant: ET0 - rainfall
water_deficit_reversed(climate) ==
    climate.annual_et0_mm - climate.annual_rainfall_mm

\* line 318, tenths
water_deficit(climate) == climate.annual_rainfall_mm - climate.annual_et0_mm

\* lines 321-324
dry_months(climate) ==
    Cardinality({m \in DOMAIN climate.rainfall_by_month :
                     climate.rainfall_by_month[m] < 500})

\* lines 327-334
drought_risk_level(deficit, dry) ==
    IF deficit < -10000 \/ dry >= 6 THEN "very_high"
    ELSE IF deficit < -5000 \/ dry >= 4 THEN "high"
    ELSE IF deficit < 0 \/ dry >= 2 THEN "moderate"
    ELSE "low"

\* lines 336-340
drought_record(climate) ==
    DroughtRisk(PyRound(water_deficit(climate), 1),
                dry_months(climate),
                drought_risk_level(water_deficit(climate), dry_months(climate)))

_assess_drought_risk ==
    /\ pc = "drought"
    /\ drought' = drought_record(climate_profile)
    /\ pc' = "landslide"
    /\ log' = Append(log, Compute("drought"))
    /\ UNCHANGED <<inputs, earthquake, tsunami, cyclone, flood, landslide,
                   overall_risk_score, formatted, error, climateSide>>

LandslideRisk(steep, high_rain, level) ==
    [steep_terrain_percent |-> steep,
     high_rainfall         |-> high_rain,
     risk_level            |-> level]

\* line 346
elev_range(grid) == MaxSeq(grid) - MinSeq(grid)

\* variant: no clamp at 100
steep_percent_unclamped(grid) == elev_range(grid) * 50

\* line 349, hundredths of a percent: min(100.0, (elev_range / 100) * 50)
steep_percent(grid) == Min2(10000, elev_range(grid) * 50)

\* variant: the landslide assessment calls rainfall high above 2000 mm
high_rainfall_2000(climate) == climate.annual_rainfall_mm > 20000

\* line 351
high_rainfall(climate) == climate.annual_rainfall_mm > 15000

\* lines 354-359
landslide_risk_level(steep, high_rain) ==
    IF steep > 3000 /\ high_rain THEN "high"
    ELSE IF steep > 2000 \/ high_rain THEN "moderate"
    ELSE "low"

\* lines 361-365
landslide_record(grid, climate) ==
    LandslideRisk(PyRound(steep_percent(grid), 10),
                  high_rainfall(climate),
                  landslide_risk_level(steep_percent(grid),
                                       high_rainfall(climate)))

_assess_landslide_risk ==
    /\ pc = "landslide"
    /\ IF Len(elevation_grid) = 0
       THEN \* line 346: max() of an empty list
            /\ pc' = "raised"
            /\ error' = "ValueError"
            /\ UNCHANGED landslide
       ELSE /\ landslide' = landslide_record(elevation_grid, climate_profile)
            /\ pc' = "compose"
            /\ UNCHANGED error
    /\ log' = Append(log, Compute("landslide"))
    /\ UNCHANGED <<inputs, earthquake, tsunami, cyclone, flood, drought,
                   overall_risk_score, formatted, climateSide>>

----------------------------------------------------------------------------
(* RiskComposer: disasters.py 95-127, 380-389                              *)

\* variant: a level missing from the table scores 0.0
_risk_to_score_no_default(risk_level) ==
    CASE risk_level = "very_low"  -> 10
      [] risk_level = "low"       -> 30
      [] risk_level = "moderate"  -> 50
      [] risk_level = "high"      -> 75
      [] risk_level = "very_high" -> 100
      [] OTHER                    -> 0

_risk_to_score(risk_level) ==
    CASE risk_level = "very_low"  -> 10
      [] risk_level = "low"       -> 30
      [] risk_level = "moderate"  -> 50
      [] risk_level = "high"      -> 75
      [] risk_level = "very_high" -> 100
      [] OTHER                    -> 50

\* variant: tsunami weighted 1.0 instead of 1.5
weights_tsunami_light ==
    [earthquake |-> 20, tsunami |-> 10, cyclone |-> 15,
     flood |-> 20, drought |-> 10, landslide |-> 10]

weights ==
    [earthquake |-> 20, tsunami |-> 15, cyclone |-> 15,
     flood |-> 20, drought |-> 10, landslide |-> 10]

risk_scores(eq, ts, cy, fl, dr, ls) ==
    [earthquake |-> _risk_to_score(eq.risk_level),
     tsunami    |-> _risk_to_score(ts.risk_level),
     cyclone    |-> _risk_to_score(cy.risk_level),
     flood      |-> _risk_to_score(fl.risk_level),
     drought    |-> _risk_to_score(dr.risk_level),
     landslide  |-> _risk_to_score(ls.risk_level)]

\* hundredths: sum(risk_scores[k] * weights[k] for k in risk_scores)
total_score(scores) ==
    SumOver([k \in DOMAIN scores |-> scores[k] * weights[k]], DOMAIN scores)

\* variant: divides by the number of hazards instead of the sum of weights
total_weight_count == 10 * Cardinality(DOMAIN weights)

\* tenths: sum(weights.values())
total_weight == SumOver(weights, DOMAIN weights)

\* tenths: round(total_score / total_weight, 1)
overall_risk(scores) == PyRound(total_score(scores), total_weight)

\* variant: boundaries taken inclusive (score <= 2, ...)
_get_risk_summary_inclusive(score) ==
    IF score <= 20 THEN "very_low"
    ELSE IF score <= 40 THEN "low"
    ELSE IF score <= 60 THEN "moderate"
    ELSE IF score <= 80 THEN "high"
    ELSE "very_high"

(* orchestrator.py 328-339; score in tenths *)
_get_risk_summary(score) ==
    IF score < 20 THEN "very_low"
    ELSE IF score < 40 THEN "low"
    ELSE IF score < 60 THEN "moderate"
    ELSE IF score < 80 THEN "high"
    ELSE "very_high"

(* disasters.py 95-127: the tail of get_disaster_profile; it returns to   *)
(* orchestrator.py 95 when get_city_profile made the call                  *)
ComposeRisk ==
    /\ pc = "compose"
    /\ overall_risk_score' =
           overall_risk(risk_scores(earthquake, tsunami, cyclone,
                                    flood, drought, landslide))
    /\ pc' = IF entry = "get_city_profile" THEN "osm" ELSE "format"
    /\ log' = Append(log, Compute("composite"))
    /\ UNCHANGED <<inputs, hazards, formatted, error, climateSide>>

(* orchestrator.py 278-320 *)
_format_disaster_data ==
    /\ pc = "format"
    /\ formatted' =
           [overall_risk_score |-> overall_risk_score,
            risk_summary       |-> _get_risk_summary(overall_risk_score),
            earthquake |->
                [risk_level         |-> earthquake.risk_level,
                 total_events_100yr |-> earthquake.events_last_100yr,
                 max_magnitude      |-> earthquake.max_magnitude,
                 avg_magnitude      |-> earthquake.avg_magnitude,
                 nearest_event_km   |-> earthquake.nearest_event_km],
            tsunami |->
                [risk_level          |-> tsunami.risk_level,
                 coastal_city        |-> tsunami.coastal_city,
                 events_within_500km |-> tsunami.events_within_500km],
            tropical_cyclone |->
                [risk_level           |-> cyclone.risk_level,
                 events_50yr          |-> cyclone.events_50yr,
                 frequency_per_decade |-> cyclone.frequency_per_decade,
                 max_category         |-> cyclone.max_category,
                 avg_wind_speed_kmh   |-> cyclone.avg_wind_speed_kmh],
            flood |->
                [risk_level            |-> flood.risk_level,
                 low_elevation_percent |-> flood.low_elevation_percent,
                 annual_rainfall_mm    |-> flood.annual_rainfall_mm,
                 wet_season_intensity  |-> flood.wet_season_intensity,
                 drainage_capacity     |-> flood.drainage_capacity],
            drought |->
                [risk_level        |-> drought.risk_level,
                 water_deficit_mm  |-> drought.water_deficit_mm,
                 dry_season_months |-> drought.dry_season_months],
            landslide |->
                [risk_level            |-> landslide.risk_level,
                 steep_terrain_percent |-> landslide.steep_terrain_percent,
                 high_rainfall         |-> landslide.high_rainfall]]
    /\ pc' = "done"
    /\ UNCHANGED <<inputs, hazards, overall_risk_score, error, climateSide, log>>

----------------------------------------------------------------------------
(* get_disaster_profile (disasters.py 67-127) followed by                  *)
(* _format_disaster_data (orchestrator.py 117): one step per call made.    *)

Next ==
    \/ _assess_earthquake_risk
    \/ _assess_tsunami_risk
    \/ _assess_cyclone_risk
    \/ _assess_flood_risk
    \/ _assess_drought_risk
    \/ _assess_landslide_risk
    \/ ComposeRisk
    \/ _format_disaster_data

----------------------------------------------------------------------------
(* Input domains                                                           *)

MaxLat == 90

MaxLon == 180

MaxGrid == 3

MaxEvents == 51

Lats == -MaxLat..MaxLat

Lons == -MaxLon..MaxLon

\* elevations (m) on both sides of the 10 m line and giving ranges of
\* 40, 41, 60, 61 and 300 m
ElevValues == {9, 10, 50, 51, 70, 71, 310}

RECURSIVE SeqsUpTo(_, _)
SeqsUpTo(S, n) ==
    IF n = 0 THEN {<<>>}
    ELSE LET shorter == SeqsUpTo(S, n - 1)
         IN  shorter \cup {Append(g, e) : g \in {h \in shorter : Len(h) = n - 1},
                                          e \in S}

Grids == SeqsUpTo(ElevValues, MaxGrid)

\* tenths of a mm, multiples of 0.5 mm (exact as doubles)
RainfallValues == {0, 5000, 5005, 10000, 10005, 15000, 15005, 20000}

Et0Values == {0, 5, 5000, 5005, 10000, 10005, 12000}

\* monthly means (tenths of a mm) below, at and above the 50 mm line
DryValues == {0, 495}

WetValues == {500, 3000}

\* the first n_dry months get the dry value, the others the wet value
MonthlyPattern(n_dry, dry, wet) ==
    [m \in 1..12 |-> IF m <= n_dry THEN dry ELSE wet]

MonthlyPatterns ==
    {MonthlyPattern(n, d, w) : n \in 0..12, d \in DryValues, w \in WetValues}

ClimateProfile(rain, et0, monthly) ==
    [annual_rainfall_mm |-> rain,
     annual_et0_mm      |-> et0,
     rainfall_by_month  |-> monthly]

\* magnitudes in hundredths, >= 4.0
MagValues == {400, 495, 500, 595, 600, 695, 700, 725}

\* haversine results in hundredths of a km, within maxradiuskm = 500
DistValues == {0, 1225, 1234, 49999}

FarDist == CHOOSE d \in DistValues : \A e \in DistValues : e <= d

\* n events sorted by magnitude: n_top of magnitude top, then magnitude base;
\* the event at index near is d_near away, the others FarDist
EventList(n, top, n_top, base, near, d_near) ==
    [i \in 1..n |-> [mag  |-> IF i <= n_top THEN top ELSE base,
                     dist |-> IF i = near THEN d_near ELSE FarDist]]

(* Python sums the magnitudes as doubles.  The sum is exact when every     *)
(* magnitude is a multiple of 0.25; otherwise its error only matters when  *)
(* the exact mean falls halfway between two tenths, and such lists are     *)
(* left out of the input domain.                                           *)
MeanIsExact(events) ==
    LET mags == magnitudes(events)
    IN  \/ \A i \in 1..Len(mags) : mags[i] % 25 = 0
        \/ 2 * (SumSeq(mags) % (10 * Len(mags))) # 10 * Len(mags)

EventLists(max_n) ==
    {ev \in {EventList(n, top, n_top, base, near, d_near) :
                 n \in 0..max_n, top \in MagValues, base \in MagValues,
                 n_top \in {1, 2, max_n}, near \in {1, max_n},
                 d_near \in DistValues \ {FarDist}} :
        /\ Len(ev) > 0 =>
              /\ ev[Len(ev)].mag <= ev[1].mag
              /\ MeanIsExact(ev)}

OkResponse(events) == [status |-> 200, features |-> events]

ErrorResponse == [status |-> 503, features |-> <<>>]

UsgsResponses == {OkResponse(ev) : ev \in EventLists(MaxEvents)}
                     \cup {ErrorResponse}

DefaultGrid == <<50>>

DefaultClimate == ClimateProfile(5000, 5000, MonthlyPattern(0, 0, 500))

\* a ClimateService that has not been used (climate.py 64-71)
NoClimateCall ==
    /\ archive_response = None
    /\ profile = None
    /\ last_request_time = 0
    /\ request_times = <<>>

Epoch == 1000

\* a direct call of get_disaster_profile
DirectCall ==
    /\ entry = "get_disaster_profile"
    /\ NoClimateCall
    /\ now = Epoch
    /\ log = <<>>

Unset ==
    /\ earthquake = None
    /\ tsunami = None
    /\ cyclone = None
    /\ flood = None
    /\ drought = None
    /\ landslide = None
    /\ overall_risk_score = None
    /\ formatted = None
    /\ error = None

----------------------------------------------------------------------------
(* Inputs of get_climate_profile: answers of the weather archive           *)

MaxDays == 3

MaxYears == 2

FirstYear == 2015

Years == FirstYear..(FirstYear + MaxYears - 1)

\* months that the input windows touch
InputMonths == {1, 2}

Dates == {[year |-> y, month |-> m] : y \in Years, m \in InputMonths}

\* the archive answers with one entry per day, oldest first
Chronological(dates) ==
    \A i \in 1..(Len(dates) - 1) :
        \/ dates[i].year < dates[i + 1].year
        \/ /\ dates[i].year = dates[i + 1].year
           /\ dates[i].month <= dates[i + 1].month

Windows == {w \in SeqsUpTo(Dates, MaxDays) : Chronological(w)}

\* windows of January days, which differ in how the days spread over the years
YearWindows == {w \in Windows : \A i \in 1..Len(w) : w[i].month = 1}

\* windows within the first year, which differ in the months of the days
MonthWindows == {w \in Windows : \A i \in 1..Len(w) : w[i].year = FirstYear}

Constant(n, v) == [i \in 1..n |-> v]

\* a "daily" object with the given columns and a steady reading in the others
Daily(dates, tmax, tmin, precip, wind, et0) ==
    LET n == Len(dates)
    IN  [time                            |-> dates,
         temperature_2m_max              |-> tmax,
         temperature_2m_min              |-> tmin,
         precipitation_sum               |-> precip,
         wind_speed_10m_max              |-> wind,
         wind_gusts_10m_max              |-> Constant(n, 400),
         wind_direction_10m_dominant     |-> Constant(n, 180),
         shortwave_radiation_sum         |-> Constant(n, 180),
         relative_humidity_2m_mean       |-> Constant(n, 60),
         relative_humidity_2m_max        |-> Constant(n, 80),
         relative_humidity_2m_min        |-> Constant(n, 40),
         soil_moisture_0_to_7cm_mean     |-> Constant(n, 250),
         soil_moisture_7_to_28cm_mean    |-> Constant(n, 300),
         soil_moisture_28_to_100cm_mean  |-> Constant(n, 350),
         soil_temperature_0_to_7cm_mean  |-> Constant(n, 150),
         et0_fao_evapotranspiration      |-> et0]

Columns == DOMAIN Daily(<<>>, <<>>, <<>>, <<>>, <<>>, <<>>) \ {"time"}

\* every reading of one column missing
Blank(data, column) ==
    [data EXCEPT ![column] = Constant(Len(data[column]), Null)]

SteadyDaily(dates) ==
    LET n == Len(dates)
    IN  Daily(dates, Constant(n, 300), Constant(n, 200), Constant(n, 20),
              Constant(n, 120), Constant(n, 35))

ArchiveOk(data) == [outcome |-> "ok", daily |-> data]

ArchiveHttpError == [outcome |-> "http_error", daily |-> None]

ArchiveException == [outcome |-> "exception", daily |-> None]

\* precipitation readings, tenths of a mm, multiples of 0.5 mm
PrecipValues == {Null, 0, 5, 1005}

\* daily maxima and minima, tenths of a degree, multiples of 0.5 degree
TmaxValues == {Null, 300, 305}

TminValues == {Null, 200, 205}

ColumnsOver(S, n) == {c \in SeqsUpTo(S, n) : Len(c) = n}

\* a direct call of get_climate_profile on a new ClimateService
ClimateCall ==
    /\ pc = "climate_request"
    /\ entry = "get_climate_profile"
    /\ lat = 0
    /\ lon = 0
    /\ elevation_grid = DefaultGrid
    /\ climate_profile = None
    /\ usgs_response = OkResponse(<<>>)
    /\ Unset
    /\ profile = None
    /\ last_request_time = 0
    /\ request_times = <<>>
    /\ now = Epoch
    /\ log = <<>>

\* every window with every precipitation column
InitRain ==
    /\ ClimateCall
    /\ \/ archive_response \in {ArchiveHttpError, ArchiveException}
       \/ \E dates \in Windows : \E precip \in ColumnsOver(PrecipValues, Len(dates)) :
            archive_response =
                ArchiveOk([SteadyDaily(dates) EXCEPT !.precipitation_sum = precip])

SpecRain == InitRain /\ [][NextClimate]_vars

\* every spread of the days over the years with every column of daily
\* maxima and minima
InitTemp ==
    /\ ClimateCall
    /\ \/ archive_response \in {ArchiveHttpError, ArchiveException}
       \/ \E dates \in YearWindows :
          \E tmax \in ColumnsOver(TmaxValues, Len(dates)),
             tmin \in ColumnsOver(TminValues, Len(dates)) :
            archive_response =
                ArchiveOk([SteadyDaily(dates) EXCEPT !.temperature_2m_max = tmax,
                                                     !.temperature_2m_min = tmin])

SpecTemp == InitTemp /\ [][NextClimate]_vars

----------------------------------------------------------------------------
(* Spec: whole calls of get_disaster_profile on a sample of sites, grids,  *)
(* climates and catalog answers                                            *)

Sites == {<<-7, 39>>, <<28, 85>>, <<20, -80>>, <<2, 100>>, <<50, 10>>}

SampleGrids == {<<>>, <<9>>, <<50, 10>>, <<9, 310>>, <<10, 9, 9>>, <<10, 71>>}

SampleClimates ==
    {ClimateProfile(20000, 12000, MonthlyPattern(0, 0, 3000)),
     ClimateProfile(0, 12000, MonthlyPattern(12, 0, 500)),
     ClimateProfile(10005, 5000, MonthlyPattern(4, 495, 3000)),
     ClimateProfile(5000, 5000, MonthlyPattern(1, 0, 500))}

SampleResponses ==
    {ErrorResponse,
     OkResponse(<<>>),
     OkResponse(EventList(1, 725, 1, 725, 1, 1234)),
     OkResponse(EventList(6, 495, 1, 400, 6, 1225)),
     OkResponse(EventList(21, 595, 2, 400, 1, 0))}

Init ==
    /\ pc = "earthquake"
    /\ \E site \in Sites : lat = site[1] /\ lon = site[2]
    /\ elevation_grid \in SampleGrids
    /\ climate_profile \in SampleClimates
    /\ usgs_response \in SampleResponses
    /\ Unset
    /\ DirectCall

Spec == Init /\ [][Next]_vars

----------------------------------------------------------------------------
(* Specifications that run the same calls with one input drawn from its    *)
(* whole domain and the others fixed                                       *)

\* every catalog answer of the input domain
InitEarthquake ==
    /\ pc = "earthquake"
    /\ lat = 0
    /\ lon = 0
    /\ elevation_grid = DefaultGrid
    /\ climate_profile = DefaultClimate
    /\ usgs_response \in UsgsResponses
    /\ Unset
    /\ DirectCall

SpecEarthquake == InitEarthquake /\ [][Next]_vars

\* every whole-degree coordinate
InitCyclone ==
    /\ pc = "earthquake"
    /\ lat \in Lats
    /\ lon \in Lons
    /\ elevation_grid = DefaultGrid
    /\ climate_profile = DefaultClimate
    /\ usgs_response = OkResponse(<<>>)
    /\ Unset
    /\ DirectCall

SpecCyclone == InitCyclone /\ [][Next]_vars

\* coordinates on, just inside and just outside every edge of a tsunami zone
EdgeLats ==
    {x \in Lats : x \in {0, -MaxLat, MaxLat} \/
        \E i \in 1..Len(tsunami_zones), d \in -1..1 :
            x = tsunami_zones[i][1] + d \/ x = tsunami_zones[i][2] + d}

EdgeLons ==
    {x \in Lons : x \in {0, -MaxLon, MaxLon} \/
        \E i \in 1..Len(tsunami_zones), d \in -1..1 :
            x = tsunami_zones[i][3] + d \/ x = tsunami_zones[i][4] + d}

CoastGrids == SeqsUpTo({9, 10, 50}, MaxGrid)

InitTsunami ==
    /\ pc = "earthquake"
    /\ lat \in EdgeLats
    /\ lon \in EdgeLons
    /\ elevation_grid \in CoastGrids
    /\ climate_profile = DefaultClimate
    /\ usgs_response = OkResponse(<<>>)
    /\ Unset
    /\ DirectCall

SpecTsunami == InitTsunami /\ [][Next]_vars

\* every grid of the input domain with every annual rainfall
InitTerrain ==
    /\ pc = "earthquake"
    /\ lat = 0
    /\ lon = 0
    /\ elevation_grid \in Grids
    /\ \E rain \in RainfallValues, wet \in WetValues :
           climate_profile = ClimateProfile(rain, 5000, MonthlyPattern(3, 0, wet))
    /\ usgs_response = OkResponse(<<>>)
    /\ Unset
    /\ DirectCall

SpecTerrain == InitTerrain /\ [][Next]_vars

\* every rainfall, ET0 and monthly pattern
InitDrought ==
    /\ pc = "earthquake"
    /\ lat = 0
    /\ lon = 0
    /\ elevation_grid = DefaultGrid
    /\ \E rain \in RainfallValues, et0 \in Et0Values, monthly \in MonthlyPatterns :
           climate_profile = ClimateProfile(rain, et0, monthly)
    /\ usgs_response = OkResponse(<<>>)
    /\ Unset
    /\ DirectCall

SpecDrought == InitDrought /\ [][Next]_vars

(* The composer on every combination of six risk levels: the six records   *)
(* are given, the tail of get_disaster_profile and the formatting run.     *)
WithLevel(record, level) == [record EXCEPT !.risk_level = level]

InitCompose ==
    /\ pc = "compose"
    /\ lat = 0
    /\ lon = 0
    /\ elevation_grid = DefaultGrid
    /\ climate_profile = DefaultClimate
    /\ usgs_response = OkResponse(<<>>)
    /\ \E l \in [HazardNames -> Levels] :
           /\ earthquake = WithLevel(earthquake_record(<<>>), l["earthquake"])
           /\ tsunami = WithLevel(tsunami_record(0, 0, DefaultGrid), l["tsunami"])
           /\ cyclone = WithLevel(cyclone_record(0, 0), l["cyclone"])
           /\ flood = WithLevel(flood_record(DefaultGrid, DefaultClimate), l["flood"])
           /\ drought = WithLevel(drought_record(DefaultClimate), l["drought"])
           /\ landslide = WithLevel(landslide_record(DefaultGrid, DefaultClimate),
                                    l["landslide"])
    /\ overall_risk_score = None
    /\ formatted = None
    /\ error = None
    /\ entry = "get_disaster_profile"
    /\ NoClimateCall
    /\ now = Epoch
    /\ log = <<Fetch("seismic_catalog"), Compute("earthquake"),
               Compute("tsunami"), Compute("cyclone"), Compute("flood"),
               Compute("drought"), Compute("landslide")>>

NextCompose == ComposeRisk \/ _format_disaster_data

SpecCompose == InitCompose /\ [][NextCompose]_vars

(* The composer on level strings in and outside the table of               *)
(* _risk_to_score: dict.get compares strings exactly, so a level in other  *)
(* letter case is not in the table.                                        *)
UnknownLevels == {"extreme", "HIGH"}

LevelStrings == Levels \cup UnknownLevels

InitScore ==
    /\ pc = "compose"
    /\ lat = 0
    /\ lon = 0
    /\ elevation_grid = DefaultGrid
    /\ climate_profile = DefaultClimate
    /\ usgs_response = OkResponse(<<>>)
    /\ \E l \in [HazardNames -> LevelStrings] :
           /\ earthquake = WithLevel(earthquake_record(<<>>), l["earthquake"])
           /\ tsunami = WithLevel(tsunami_record(0, 0, DefaultGrid), l["tsunami"])
           /\ cyclone = WithLevel(cyclone_record(0, 0), l["cyclone"])
           /\ flood = WithLevel(flood_record(DefaultGrid, DefaultClimate), l["flood"])
           /\ drought = WithLevel(drought_record(DefaultClimate), l["drought"])
           /\ landslide = WithLevel(landslide_record(DefaultGrid, DefaultClimate),
                                    l["landslide"])
    /\ overall_risk_score = None
    /\ formatted = None
    /\ error = None
    /\ entry = "get_disaster_profile"
    /\ NoClimateCall
    /\ now = Epoch
    /\ log = <<Fetch("seismic_catalog"), Compute("earthquake"),
               Compute("tsunami"), Compute("cyclone"), Compute("flood"),
               Compute("drought"), Compute("landslide")>>

SpecScore == InitScore /\ [][NextCompose]_vars

\* every window with pairings of a precipitation reading and a daily maximum
\* (a frost day, days with only one of the two readings)
Readings == {<<Null, 300>>, <<5, Null>>, <<5, 300>>, <<0, -50>>, <<5, -50>>}

InitExtremes ==
    /\ ClimateCall
    /\ \/ archive_response \in {ArchiveHttpError, ArchiveException}
       \/ \E dates \in Windows : \E r \in ColumnsOver(Readings, Len(dates)) :
            archive_response =
                ArchiveOk([SteadyDaily(dates) EXCEPT
                    !.precipitation_sum = [i \in 1..Len(dates) |-> r[i][1]],
                    !.temperature_2m_max = [i \in 1..Len(dates) |-> r[i][2]]])

SpecExtremes == InitExtremes /\ [][NextClimate]_vars

\* which of the three wind readings of a day are missing
WindGaps == {"none", "speed", "all"}

\* daily maxima and minima that differ from day to day
Ramp(n, base) == [i \in 1..n |-> base + 15 * i]

GappyDaily(dates, gaps) ==
    LET n == Len(dates)
        wind(column, v) ==
            [i \in 1..n |->
                IF gaps[i] = "all" \/ (gaps[i] = "speed" /\ column = "speed")
                THEN Null ELSE v]
    IN  [Daily(dates, Ramp(n, 250), Ramp(n, 150), Constant(n, 20),
               wind("speed", 120), Constant(n, 35))
            EXCEPT !.wind_gusts_10m_max = wind("gusts", 400),
                   !.wind_direction_10m_dominant = wind("direction", 180)]

\* every window of one year with every pattern of missing wind readings, and
\* with no column or one column without any reading
InitMissing ==
    /\ ClimateCall
    /\ \/ archive_response \in {ArchiveHttpError, ArchiveException}
       \/ \E dates \in MonthWindows : \E gaps \in ColumnsOver(WindGaps, Len(dates)) :
            \/ archive_response = ArchiveOk(GappyDaily(dates, gaps))
            \/ \E column \in Columns :
                 archive_response = ArchiveOk(Blank(GappyDaily(dates, gaps), column))

SpecMissing == InitMissing /\ [][NextClimate]_vars

----------------------------------------------------------------------------
(* get_city_profile: orchestrator.py 52-119                                *)

\* geocoding.py 23-48, called at orchestrator.py 66
geocode ==
    /\ pc = "geocode"
    /\ \/ \E site \in Sites :
            /\ lat' = site[1]
            /\ lon' = site[2]
            /\ pc' = "elevation"
            /\ UNCHANGED error
       \/ \* line 30 or line 35
          /\ pc' = "raised"
          /\ error' \in {"HTTPError", "ValueError"}
          /\ UNCHANGED <<lat, lon>>
    /\ log' = Append(log, Fetch("geocoding"))
    /\ UNCHANGED <<elevation_grid, climate_profile, usgs_response, hazards,
                   overall_risk_score, formatted, climateSide>>

\* elevation.py 32-67, called at orchestrator.py 70
get_elevation_grid ==
    /\ pc = "elevation"
    /\ \/ \E grid \in SampleGrids :
            /\ elevation_grid' = grid
            /\ pc' = "climate_request"
            /\ UNCHANGED error
       \/ \* line 56
          /\ pc' = "raised"
          /\ error' = "HTTPError"
          /\ UNCHANGED elevation_grid
    /\ log' = Append(log, Fetch("elevation"))
    /\ UNCHANGED <<lat, lon, climate_profile, usgs_response, hazards,
                   overall_risk_score, formatted, climateSide>>

\* soil.py 54-95, called at orchestrator.py 85: a lookup in regional tables
get_soil_composition ==
    /\ pc = "soil"
    /\ pc' = "earthquake"
    /\ UNCHANGED <<inputs, hazards, overall_risk_score, formatted, error,
                   climateSide, log>>

\* openstreetmap.py 65-108, called at orchestrator.py 99: three queries,
\* each of which catches its own failure
get_area_data ==
    /\ pc = "osm"
    /\ IF lat = 0
       THEN \* line 84: division by abs(float(center_lat))
            /\ pc' = "raised"
            /\ error' = "ZeroDivisionError"
            /\ UNCHANGED log
       ELSE /\ pc' = "format"
            /\ log' = log \o <<Fetch("map_features"), Fetch("map_features"),
                               Fetch("map_features")>>
            /\ UNCHANGED error
    /\ UNCHANGED <<inputs, hazards, overall_risk_score, formatted, climateSide>>

NextCity ==
    \/ geocode
    \/ get_elevation_grid
    \/ NextClimate
    \/ get_soil_composition
    \/ Next
    \/ get_area_data

SampleArchives ==
    {ArchiveHttpError, ArchiveException,
     ArchiveOk(SteadyDaily(<<>>)),
     ArchiveOk(SteadyDaily(<<[year |-> FirstYear, month |-> 1]>>)),
     ArchiveOk(Blank(SteadyDaily(<<[year |-> FirstYear, month |-> 1],
                                   [year |-> FirstYear, month |-> 2]>>),
                     "precipitation_sum")),
     ArchiveOk(Daily(<<[year |-> FirstYear, month |-> 1],
                       [year |-> FirstYear, month |-> 2]>>,
                     <<300, 305>>, <<200, Null>>, <<1005, 5>>,
                     <<120, 120>>, <<35, 35>>))}

InitCity ==
    /\ pc = "geocode"
    /\ entry = "get_city_profile"
    /\ lat = None
    /\ lon = None
    /\ elevation_grid = None
    /\ climate_profile = None
    /\ usgs_response \in SampleResponses
    /\ archive_response \in SampleArchives
    /\ Unset
    /\ profile = None
    /\ last_request_time = 0
    /\ request_times = <<>>
    /\ now = Epoch
    /\ log = <<>>

SpecCity == InitCity /\ [][NextCity]_vars

\* get_disaster_profile called with an empty grid or with coordinates that
\* are not on the globe
InitInvalid ==
    /\ pc = "earthquake"
    /\ lat \in {-(MaxLat + 1), 0, MaxLat + 1}
    /\ lon \in {-(MaxLon + 1), 0, MaxLon + 1}
    /\ elevation_grid \in {<<>>, <<50>>, <<9, 50>>}
    /\ climate_profile \in SampleClimates
    /\ usgs_response \in {OkResponse(<<>>), ErrorResponse}
    /\ Unset
    /\ DirectCall

SpecInvalid == InitInvalid /\ [][Next]_vars

----------------------------------------------------------------------------
(* get_city_profile from the climate request on (orchestrator.py 77-118),  *)
(* on windows of whole calendar years that repeat the readings of one year *)

\* the months of the readings of one year
YearShapes ==
    {s \in SeqsUpTo(InputMonths, MaxDays) :
        Len(s) > 0 /\ \A i \in 1..(Len(s) - 1) : s[i] <= s[i + 1]}

\* n years with the readings of the given year, oldest first
RepeatDates(shape, n) ==
    [i \in 1..(n * Len(shape)) |->
        [year  |-> FirstYear + ((i - 1) \div Len(shape)),
         month |-> shape[((i - 1) % Len(shape)) + 1]]]

RepeatColumn(column, n) ==
    [i \in 1..(n * Len(column)) |-> column[((i - 1) % Len(column)) + 1]]

\* daily precipitation and ET0, tenths of a mm
WetDayValues == {0, 20}

Et0DayValues == {35, 40}

RepeatedYears ==
    UNION {{[SteadyDaily(RepeatDates(shape, n)) EXCEPT
                !.precipitation_sum = RepeatColumn(precip, n),
                !.et0_fao_evapotranspiration = Constant(n * Len(shape), e)] :
              n \in 1..MaxYears,
              precip \in ColumnsOver(WetDayValues, Len(shape)),
              e \in Et0DayValues} : shape \in YearShapes}

InitWindow ==
    /\ pc = "climate_request"
    /\ entry = "get_city_profile"
    /\ lat = -7
    /\ lon = 39
    /\ elevation_grid = DefaultGrid
    /\ climate_profile = None
    /\ usgs_response = OkResponse(<<>>)
    /\ \E data \in RepeatedYears : archive_response = ArchiveOk(data)
    /\ Unset
    /\ profile = None
    /\ last_request_time = 0
    /\ request_times = <<>>
    /\ now = Epoch
    /\ log = <<Fetch("geocoding"), Fetch("elevation")>>

NextWindow == NextClimate \/ get_soil_composition \/ Next \/ get_area_data

SpecWindow == InitWindow /\ [][NextWindow]_vars

----------------------------------------------------------------------------
(* Several calls of get_climate_profile on one ClimateService              *)

MaxCalls == 3

\* how long the caller waits after a call before it calls again, tenths of
\* a second
Waits == {0, 5, 10, 25}

\* answers of the weather archive: a complete one, one without readings
\* (the aggregation raises), an HTTP error status, no answer at all
RateAnswers ==
    {ArchiveOk(SteadyDaily(<<[year |-> FirstYear, month |-> 1]>>)),
     ArchiveOk(SteadyDaily(<<>>)),
     ArchiveHttpError,
     ArchiveException}

\* climate.py 73: the next call on the same object, which keeps
\* last_request_time
CallAgain ==
    /\ pc \in {"returned", "raised"}
    /\ entry = "get_climate_profile"
    /\ Len(request_times) < MaxCalls
    /\ \E wait \in Waits : now' = now + wait
    /\ archive_response' \in RateAnswers
    /\ pc' = "climate_request"
    /\ error' = None
    /\ profile' = None
    /\ UNCHANGED <<inputs, hazards, overall_risk_score, formatted, entry,
                   last_request_time, request_times, log>>

InitRate ==
    /\ ClimateCall
    /\ archive_response \in RateAnswers

NextRate == NextClimate \/ CallAgain

SpecRate == InitRate /\ [][NextRate]_vars

----------------------------------------------------------------------------
(* Properties                                                              *)

\* C1: for every combination of six valid risk levels, overall_risk_score is
\* the weighted mean sum(score * weight) / sum(weight), rounded to one
\* decimal, with scores very_low 1.0, low 3.0, moderate 5.0, high 7.5,
\* very_high 10.0 and weights 2.0, 1.5, 1.5, 2.0, 1.0, 1.0 (total 9.0):
\* the returned score is the tenth nearest to the weighted mean.
C1_WeightedMean ==
    pc \in {"format", "done"} =>
        LET score == [very_low |-> 10, low |-> 30, moderate |-> 50,
                      high |-> 75, very_high |-> 100]
            sum == 20 * score[earthquake.risk_level]
                   + 15 * score[tsunami.risk_level]
                   + 15 * score[cyclone.risk_level]
                   + 20 * score[flood.risk_level]
                   + 10 * score[drought.risk_level]
                   + 10 * score[landslide.risk_level]
        IN  2 * Abs(90 * overall_risk_score - sum) <= 90

\* (15 + 1.5 + 7.5 + 20 + 3 + 5) / 9 = 5.77.. gives 5.8
C1_Witness ==
    /\ pc = "done"
    /\ earthquake.risk_level = "high"
    /\ tsunami.risk_level = "very_low"
    /\ cyclone.risk_level = "moderate"
    /\ flood.risk_level = "very_high"
    /\ drought.risk_level = "low"
    /\ landslide.risk_level = "moderate"
    /\ overall_risk_score = 58

\* C2: overall_risk_score is always in [0, 10] for any combination of six
\* valid risk levels.
C2_ScoreInRange ==
    pc \in {"format", "done"} =>
        0 <= overall_risk_score /\ overall_risk_score <= 100

C2_Witness ==
    /\ pc = "done"
    /\ \A h \in hazardSet : h.risk_level = "very_high"
    /\ overall_risk_score = 100

\* C3: risk_summary is a function of overall_risk_score alone: below 2
\* very_low, from 2 below 4 low, from 4 below 6 moderate, from 6 below 8
\* high, from 8 very_high; six hazards all very_low give score 1.0 and
\* summary very_low.
C3_RiskSummaryBuckets ==
    pc = "done" =>
        LET score == formatted.overall_risk_score
            summary == formatted.risk_summary
        IN  /\ score = overall_risk_score
            /\ score < 20 => summary = "very_low"
            /\ (20 <= score /\ score < 40) => summary = "low"
            /\ (40 <= score /\ score < 60) => summary = "moderate"
            /\ (60 <= score /\ score < 80) => summary = "high"
            /\ score >= 80 => summary = "very_high"
            /\ (\A h \in hazardSet : h.risk_level = "very_low") =>
                   score = 10 /\ summary = "very_low"

C3_Witness ==
    /\ pc = "done"
    /\ \A h \in hazardSet : h.risk_level = "very_low"
    /\ formatted.overall_risk_score = 10
    /\ formatted.risk_summary = "very_low"

\* C4: with max_mag the largest event magnitude and count the number of
\* events, the earthquake risk_level is the first matching row of:
\* max_mag >= 7.0 or count > 50 very_high; max_mag >= 6.0 or count > 20 high;
\* max_mag >= 5.0 or count > 10 moderate; count > 5 low; otherwise very_low.
C4_EarthquakeDecisionTable ==
    pc = "tsunami" =>
        LET events == usgs_response.features
            count == Len(events)
            mags == {events[i].mag : i \in 1..count}
            max_mag == IF count = 0 THEN 0
                       ELSE CHOOSE m \in mags : \A x \in mags : x <= m
            row1 == max_mag >= 700 \/ count > 50
            row2 == max_mag >= 600 \/ count > 20
            row3 == max_mag >= 500 \/ count > 10
            row4 == count > 5
            level == earthquake.risk_level
        IN  /\ row1 => level = "very_high"
            /\ (~row1 /\ row2) => level = "high"
            /\ (~row1 /\ ~row2 /\ row3) => level = "moderate"
            /\ (~row1 /\ ~row2 /\ ~row3 /\ row4) => level = "low"
            /\ (~row1 /\ ~row2 /\ ~row3 /\ ~row4) => level = "very_low"

\* 21 events, none as strong as 6.0: the count alone gives high
C4_Witness ==
    /\ pc = "tsunami"
    /\ Len(usgs_response.features) = 21
    /\ \A i \in 1..21 : usgs_response.features[i].mag < 600
    /\ earthquake.risk_level = "high"

\* C5: when the seismic event list is empty the earthquake assessment does
\* not fail and returns risk_level very_low, total_events 0, max_magnitude
\* 0.0, avg_magnitude 0.0 and nearest_event_km 999.0.
C5_NoEvents ==
    (usgs_response.status < 400 /\ usgs_response.features = <<>>) =>
        /\ ~(pc = "raised" /\ error \in {"HTTPError", "ValueError"})
        /\ pc = "tsunami" =>
               /\ earthquake.risk_level = "very_low"
               /\ earthquake.total_events = 0
               /\ earthquake.max_magnitude = 0
               /\ earthquake.avg_magnitude = 0
               /\ earthquake.nearest_event_km = 9990

C5_Witness ==
    /\ pc = "tsunami"
    /\ usgs_response.features = <<>>
    /\ earthquake.risk_level = "very_low"
    /\ earthquake.nearest_event_km = 9990

\* C6: for a non-empty grid, with low_pct = 100 * (samples below 10 m) /
\* (samples), the flood (drainage, risk) pair is the first matching row of:
\* rainfall > 1500 and low_pct > 50 (poor, very_high); rainfall > 1000 or
\* low_pct > 30 (moderate, high); rainfall > 500 (good, moderate); otherwise
\* (good, low).  All samples below 10 m with 2000 mm give (poor, very_high).
C6_FloodDecisionTable ==
    pc = "drought" =>
        LET n == Len(elevation_grid)
            low == Cardinality({i \in 1..n : elevation_grid[i] < 10})
            rain == climate_profile.annual_rainfall_mm
            row1 == rain > 15000 /\ 100 * low > 50 * n
            row2 == rain > 10000 \/ 100 * low > 30 * n
            row3 == rain > 5000
            pair == <<flood.drainage_capacity, flood.risk_level>>
        IN  /\ n > 0
            /\ row1 => pair = <<"poor", "very_high">>
            /\ (~row1 /\ row2) => pair = <<"moderate", "high">>
            /\ (~row1 /\ ~row2 /\ row3) => pair = <<"good", "moderate">>
            /\ (~row1 /\ ~row2 /\ ~row3) => pair = <<"good", "low">>
            /\ (low = n /\ rain = 20000) => pair = <<"poor", "very_high">>

C6_Witness ==
    /\ pc = "drought"
    /\ elevation_grid = <<9, 9, 9>>
    /\ climate_profile.annual_rainfall_mm = 20000
    /\ flood.drainage_capacity = "poor"
    /\ flood.risk_level = "very_high"

C8_LandslideDecisionTable ==
    pc = "compose" =>
        LET n == Len(elevation_grid)
            elevs == {elevation_grid[i] : i \in 1..n}
            top == CHOOSE e \in elevs : \A x \in elevs : x <= e
            bottom == CHOOSE e \in elevs : \A x \in elevs : e <= x
            range == top - bottom
            steep == IF 5 * range < 1000 THEN 5 * range ELSE 1000
            rain == climate_profile.annual_rainfall_mm
            level == landslide.risk_level
        IN  /\ landslide.steep_terrain_percent = steep
            /\ 0 <= landslide.steep_terrain_percent
            /\ landslide.steep_terrain_percent <= 1000
            /\ landslide.high_rainfall <=> rain > 15000
            /\ (steep > 300 /\ rain > 15000) => level = "high"
            /\ (~(steep > 300 /\ rain > 15000) /\ (steep > 200 \/ rain > 15000))
                   => level = "moderate"
            /\ (~(steep > 200) /\ ~(rain > 15000)) => level = "low"
            /\ (range = 300 /\ rain = 20000) =>
                   landslide.steep_terrain_percent = 1000 /\ level = "high"

C8_Witness ==
    /\ pc = "compose"
    /\ elevation_grid = <<10, 310>>
    /\ climate_profile.annual_rainfall_mm = 20000
    /\ landslide.steep_terrain_percent = 1000
    /\ landslide.risk_level = "high"

\* C9: coastal_city is true exactly when at least one terrain sample is
\* below 10 m; tsunami risk is high if coastal and the site lies in at least
\* one tsunami-zone box, moderate if coastal only, very_low otherwise; the
\* evidence is fixed by the outcome: events_within_500km 3 / 1 / 0,
\* nearest_event_km 100.0 when coastal and 999.0 when not.
C9_TsunamiAssessment ==
    pc = "cyclone" =>
        LET is_coastal == \E i \in 1..Len(elevation_grid) : elevation_grid[i] < 10
            in_zone == \E i \in 1..Len(tsunami_zones) :
                           /\ tsunami_zones[i][1] <= lat
                           /\ lat <= tsunami_zones[i][2]
                           /\ tsunami_zones[i][3] <= lon
                           /\ lon <= tsunami_zones[i][4]
        IN  /\ tsunami.coastal_city <=> is_coastal
            /\ (is_coastal /\ in_zone) =>
                   /\ tsunami.risk_level = "high"
                   /\ tsunami.events_within_500km = 3
            /\ (is_coastal /\ ~in_zone) =>
                   /\ tsunami.risk_level = "moderate"
                   /\ tsunami.events_within_500km = 1
            /\ ~is_coastal =>
                   /\ tsunami.risk_level = "very_low"
                   /\ tsunami.events_within_500km = 0
            /\ tsunami.nearest_event_km = (IF is_coastal THEN 1000 ELSE 9990)

\* a coastal sample behind an inland one, on the edge of the Caribbean box
C9_Witness ==
    /\ pc = "cyclone"
    /\ elevation_grid = <<50, 9>>
    /\ lat = 10
    /\ lon = -90
    /\ tsunami.coastal_city
    /\ tsunami.risk_level = "high"
    /\ tsunami.events_within_500km = 3
    /\ tsunami.nearest_event_km = 1000

\* C10: for every (lat, lon), cyclone risk is high if the site is inside
\* both the latitude belt (5 <= |lat| <= 30) and at least one named basin
\* box (atlantic, pacific, indian), moderate if inside a basin box but
\* outside the belt, very_low otherwise; the evidence is fixed per tier
\* (high: 15 events, 3.0 per decade, category 4, 150 km/h; moderate: 5,
\* 1.0, 2, 100; very_low: all zero).
C10_CycloneAssessment ==
    pc = "flood" =>
        LET in_belt == (5 <= lat /\ lat <= 30) \/ (5 <= -lat /\ -lat <= 30)
            in_a_basin == \E name \in {"atlantic", "pacific", "indian"} :
                              /\ cyclone_regions[name][1] <= lat
                              /\ lat <= cyclone_regions[name][2]
                              /\ cyclone_regions[name][3] <= lon
                              /\ lon <= cyclone_regions[name][4]
        IN  /\ (in_belt /\ in_a_basin) =>
                   cyclone = [events_50yr |-> 15, frequency_per_decade |-> 30,
                              max_category |-> 4, avg_wind_speed_kmh |-> 150,
                              risk_level |-> "high"]
            /\ (~in_belt /\ in_a_basin) =>
                   cyclone = [events_50yr |-> 5, frequency_per_decade |-> 10,
                              max_category |-> 2, avg_wind_speed_kmh |-> 100,
                              risk_level |-> "moderate"]
            /\ ~in_a_basin =>
                   cyclone = [events_50yr |-> 0, frequency_per_decade |-> 0,
                              max_category |-> 0, avg_wind_speed_kmh |-> 0,
                              risk_level |-> "very_low"]

\* a southern-hemisphere site of the indian box, inside the belt
C10_Witness ==
    /\ pc = "flood"
    /\ lat = -20
    /\ lon = 50
    /\ cyclone.risk_level = "high"
    /\ cyclone.events_50yr = 15

\* C11: annual_rainfall_mm equals the mean, over the calendar years that
\* have at least one non-missing value, of the per-year sum of non-missing
\* daily precipitation, rounded to one decimal; missing entries contribute
\* nothing.
C11_AnnualRainfall ==
    pc = "returned" =>
        LET dates == archive_response.daily.time
            precip == archive_response.daily.precipitation_sum
            present == {i \in 1..Len(precip) : precip[i] # Null}
            observed == {dates[i].year : i \in present}
            year_sum == [y \in observed |->
                            SumAt(precip, {i \in present : dates[i].year = y})]
            total == SumOver(year_sum, observed)
            n == Cardinality(observed)
        IN  observed # {} =>
                2 * Abs(n * profile.annual_rainfall_mm - total) <= n

\* two years in the window, the second without any reading: 100.5 mm
C11_Witness ==
    /\ pc = "returned"
    /\ Len(archive_response.daily.time) = 3
    /\ archive_response.daily.time[1].year # archive_response.daily.time[3].year
    /\ archive_response.daily.precipitation_sum = <<1005, Null, Null>>
    /\ profile.annual_rainfall_mm = 1005

\* C12: for any input series, also one without data for some months or
\* without any data, the monthly rainfall mapping has exactly the twelve
\* canonical month names as keys, January to December; a month with no
\* non-missing day maps to 0.0; every value is >= 0 when the input
\* precipitation values are >= 0.
C12_MonthlyMapping ==
    pc = "returned" =>
        LET dates == archive_response.daily.time
            precip == archive_response.daily.precipitation_sum
            present == {i \in 1..Len(precip) : precip[i] # Null}
            mapping == profile.rainfall_by_month
        IN  /\ [m \in 1..Len(mapping) |-> mapping[m][1]] =
                   <<"January", "February", "March", "April", "May", "June",
                     "July", "August", "September", "October", "November",
                     "December">>
            /\ \A m \in 1..12 :
                   (\A i \in present : dates[i].month # m) => mapping[m][2] = 0
            /\ (\A i \in present : precip[i] >= 0) =>
                   \A m \in 1..12 : mapping[m][2] >= 0

\* a window without a single precipitation reading
C12_Witness ==
    /\ pc = "returned"
    /\ Len(archive_response.daily.precipitation_sum) = 2
    /\ \A i \in 1..2 : archive_response.daily.precipitation_sum[i] = Null
    /\ \A m \in 1..12 : profile.rainfall_by_month[m][2] = 0

\* C13: wettest_month is a month whose value in the monthly rainfall mapping
\* is >= every other month's and driest_month one whose value is <= every
\* other month's; likewise hottest_month and coldest_month for the monthly
\* mean max-temperature mapping; when several months tie, the one earliest
\* in calendar order is returned.
C13_ExtremeMonths ==
    pc = "returned" =>
        LET rain == profile.rainfall_by_month
            temp == _calculate_monthly_temp_averages(
                        archive_response.daily.time,
                        archive_response.daily.temperature_2m_max)
            first_max(d, name) ==
                \E m \in 1..12 :
                    /\ d[m][1] = name
                    /\ \A k \in 1..12 : d[k][2] <= d[m][2]
                    /\ \A k \in 1..(m - 1) : d[k][2] < d[m][2]
            first_min(d, name) ==
                \E m \in 1..12 :
                    /\ d[m][1] = name
                    /\ \A k \in 1..12 : d[k][2] >= d[m][2]
                    /\ \A k \in 1..(m - 1) : d[k][2] > d[m][2]
        IN  /\ first_max(rain, profile.wettest_month)
            /\ first_min(rain, profile.driest_month)
            /\ first_max(temp, profile.hottest_month)
            /\ first_min(temp, profile.coldest_month)

\* January and February equally wet and equally hot: January is reported
C13_Witness ==
    /\ pc = "returned"
    /\ profile.rainfall_by_month[1][2] = 5
    /\ profile.rainfall_by_month[2][2] = 5
    /\ profile.wettest_month = "January"
    /\ profile.driest_month = "March"
    /\ profile.annual_temp_max_c = 300
    /\ Len(archive_response.daily.time) = 2
    /\ archive_response.daily.time[2].month = 2
    /\ profile.hottest_month = "January"

\* C14: annual_temp_max_c and annual_temp_min_c are the arithmetic means of
\* all non-missing daily max and daily min values over the whole window
\* (to one decimal), annual_temp_avg_c is the midpoint of the two means (to
\* one decimal); when every daily max is 30 and every daily min is 20,
\* annual_temp_avg_c is 25.0 for any window length.
C14_AnnualTemperature ==
    pc = "returned" =>
        LET tmax == archive_response.daily.temperature_2m_max
            tmin == archive_response.daily.temperature_2m_min
            has_max == {i \in 1..Len(tmax) : tmax[i] # Null}
            has_min == {i \in 1..Len(tmin) : tmin[i] # Null}
            sum_max == SumAt(tmax, has_max)
            sum_min == SumAt(tmin, has_min)
            n_max == Cardinality(has_max)
            n_min == Cardinality(has_min)
        IN  /\ 2 * Abs(n_max * profile.annual_temp_max_c - sum_max) <= n_max
            /\ 2 * Abs(n_min * profile.annual_temp_min_c - sum_min) <= n_min
            /\ 2 * Abs(2 * n_max * n_min * profile.annual_temp_avg_c
                           - (sum_max * n_min + sum_min * n_max))
                   <= 2 * n_max * n_min
            /\ ((\A i \in has_max : tmax[i] = 300)
                    /\ (\A i \in has_min : tmin[i] = 200)) =>
                   profile.annual_temp_avg_c = 250

\* three days of 30 / 20 degrees seen in two different years
C14_Witness ==
    /\ pc = "returned"
    /\ archive_response.daily.temperature_2m_max = <<300, 300, 300>>
    /\ archive_response.daily.temperature_2m_min = <<200, 200, 200>>
    /\ archive_response.daily.time[1].year # archive_response.daily.time[3].year
    /\ profile.annual_temp_avg_c = 250

\* C15: if, after dropping missing values, the array of any variable that
\* the aggregation reads is empty, get_climate_profile fails and returns no
\* profile (whatever the name of the error it fails with); it never returns
\* a profile computed from an empty variable.
C15_InsufficientData ==
    (/\ archive_response.outcome = "ok"
     /\ \E column \in Columns :
            \A i \in 1..Len(archive_response.daily[column]) :
                archive_response.daily[column][i] = Null)
        => pc # "returned"

\* C16: an empty terrain grid, or site coordinates out of range (|lat| > 90
\* or |lon| > 180), is rejected with InvalidInputError before any hazard
\* record is produced; get_disaster_profile never returns a profile for
\* such input.
C16_InvalidInputRejected ==
    (Len(elevation_grid) = 0 \/ Abs(lat) > 90 \/ Abs(lon) > 180) =>
        /\ \A i \in 1..Len(log) : log[i][1] # "compute"
        /\ pc \notin {"compose", "format", "done"}
        /\ pc = "raised" => error = "InvalidInputError"

\* C17: each climate variable is aggregated independently: two inputs that
\* differ only in which wind readings are missing give the same temperature
\* fields (annual_temp_avg_c, annual_temp_max_c, annual_temp_min_c,
\* hottest_month, coldest_month) whenever both give a profile.
C17_WindGapsLeaveTemperature ==
    pc = "returned" =>
        LET data == archive_response.daily
            n == Len(data.time)
            regap(gaps) ==
                [data EXCEPT
                    !.wind_speed_10m_max =
                        [i \in 1..n |-> IF gaps[i] = "none" THEN 120 ELSE Null],
                    !.wind_gusts_10m_max =
                        [i \in 1..n |-> IF gaps[i] = "all" THEN Null ELSE 400],
                    !.wind_direction_10m_dominant =
                        [i \in 1..n |-> IF gaps[i] = "all" THEN Null ELSE 180]]
            temperature(p) ==
                <<p.annual_temp_avg_c, p.annual_temp_max_c, p.annual_temp_min_c,
                  p.hottest_month, p.coldest_month>>
        IN  \A gaps \in ColumnsOver(WindGaps, n) :
                climate_error(regap(gaps)) = None =>
                    temperature(climate_profile_of(regap(gaps)))
                        = temperature(profile)

\* the wind speed is missing on the first and the last of three days
C17_Witness ==
    /\ pc = "returned"
    /\ archive_response.daily.wind_speed_10m_max = <<Null, 120, Null>>
    /\ archive_response.daily.temperature_2m_max = <<265, 280, 295>>
    /\ profile.annual_temp_max_c = 280
    /\ profile.annual_temp_avg_c = 230

\* C18: the engine holds no mutable state across calls: no step of
\* get_climate_profile or get_disaster_profile changes an attribute of the
\* service object, and the caller-supplied inputs (coordinates, elevation
\* grid, climate profile) are left as they were.
C18_NoMutableState ==
    [][/\ last_request_time' = last_request_time
       /\ pc \in {"climate_request", "climate_aggregate"} =>
              lat' = lat /\ lon' = lon
       /\ pc \in {"earthquake", "tsunami", "cyclone", "flood", "drought",
                  "landslide", "compose"} =>
              /\ lat' = lat /\ lon' = lon
              /\ elevation_grid' = elevation_grid
              /\ climate_profile' = climate_profile]_vars

\* C19: in every run of get_city_profile all external network fetches
\* (geocoding, elevation, weather archive, seismic catalog, map features)
\* have completed before the first core computation (climate aggregation or
\* a hazard assessment) starts: no request is sent after a computation.
C19_FetchesBeforeCore ==
    \A i, j \in 1..Len(log) :
        (i < j /\ log[i][1] = "compute") => log[j][1] # "fetch"

\* C20: in every run the composite score is computed only after all six
\* hazard assessments have completed, the hazard assessments start only
\* after the elevation grid and the climate profile are available, and if an
\* assessment raises, no composite score and no profile is produced.
C20_ComposerAfterAssessments ==
    LET before(e, i) == \E j \in 1..(i - 1) : log[j] = e
        composed == \E i \in 1..Len(log) : log[i] = Compute("composite")
    IN  /\ \A i \in 1..Len(log) :
               log[i] = Compute("composite") =>
                   \A h \in HazardNames : before(Compute(h), i)
        /\ \A i \in 1..Len(log) :
               (\E h \in HazardNames : log[i] = Compute(h)) =>
                   /\ before(Fetch("elevation"), i)
                   /\ before(Compute("climate"), i)
                   /\ pc \notin {"geocode", "elevation", "climate_request",
                                 "climate_aggregate", "soil"}
        /\ (composed <=> pc \in {"osm", "format", "done"})
        /\ error # None => pc = "raised" /\ ~composed
        /\ pc = "done" => formatted.overall_risk_score = overall_risk_score

\* a whole run of get_city_profile on a site with 21 catalogued events
C20_Witness ==
    /\ pc = "done"
    /\ entry = "get_city_profile"
    /\ Len(usgs_response.features) = 21
    /\ log[Len(log) - 3] = Compute("composite")
    /\ log[Len(log) - 4] = Compute("landslide")
    /\ formatted.earthquake.risk_level = "high"

\* C21: for a non-empty grid the flood assessment does not raise, and its
\* wet_season_intensity is (largest monthly rainfall) / (annual rainfall / 12)
\* rounded to one decimal when the annual rainfall is positive, and the
\* sentinel 1.0 when the annual rainfall is 0.
C21_WetSeasonIntensity ==
    (pc \in {"drought", "landslide", "compose", "format", "done"}
        /\ Len(elevation_grid) > 0) =>
        LET annual == climate_profile.annual_rainfall_mm
            largest == MaxSeq(climate_profile.rainfall_by_month)
            v == flood.wet_season_intensity
        IN  /\ error = None
            /\ annual > 0 =>
                   \* v tenths is a nearest tenth of 12 * largest / annual
                   /\ 2 * (v * annual - 120 * largest) <= annual
                   /\ 2 * (120 * largest - v * annual) <= annual
            /\ annual = 0 => v = 10

\* a year without rain: all twelve months dry, intensity 1.0
C21_Witness ==
    /\ pc = "done"
    /\ climate_profile.annual_rainfall_mm = 0
    /\ MaxSeq(climate_profile.rainfall_by_month) = 0
    /\ flood.wet_season_intensity = 10
    /\ formatted.flood.wet_season_intensity = 10

\* C22: the level-to-score mapping is total: a risk-level string outside
\* {very_low, low, moderate, high, very_high} counts as 5.0, nothing is
\* raised, and the composite score is still produced.
C22_UnknownLevelScoresFive ==
    pc \in {"format", "done"} =>
        LET table == [very_low |-> 10, low |-> 30, moderate |-> 50,
                      high |-> 75, very_high |-> 100]
            score(level) == IF level \in DOMAIN table THEN table[level] ELSE 50
            \* hundredths: 2 eq + 1.5 ts + 1.5 cy + 2 fl + dr + ls
            total == 20 * score(earthquake.risk_level)
                     + 15 * score(tsunami.risk_level)
                     + 15 * score(cyclone.risk_level)
                     + 20 * score(flood.risk_level)
                     + 10 * score(drought.risk_level)
                     + 10 * score(landslide.risk_level)
        IN  /\ error = None
            /\ overall_risk_score \in 10..100
            \* a nearest tenth of total / 9
            /\ 2 * (90 * overall_risk_score - total) <= 90
            /\ 2 * (total - 90 * overall_risk_score) <= 90

\* six levels that are all outside the table give 5.0
C22_Witness ==
    /\ pc = "done"
    /\ \A r \in {earthquake, tsunami, cyclone, flood, drought, landslide} :
           r.risk_level \notin Levels
    /\ earthquake.risk_level = "HIGH"
    /\ overall_risk_score = 50
    /\ formatted.risk_summary = "moderate"

\* C23: every box of the cyclone-basin and tsunami-zone tables is well
\* formed (lat_min <= lat_max and lon_min <= lon_max), so for every named
\* zone, the pacific cyclone basin included, there is a coordinate with
\* |lat| <= 90 and |lon| <= 180 that the membership test reports as inside.
\* Stated of the tables the tsunami and cyclone assessments of a call have
\* just built and tested the site against.
C23_ZonesWellFormed ==
    pc = "flood" =>
        LET boxes == {cyclone_regions[name] : name \in DOMAIN cyclone_regions}
                         \cup {tsunami_zones[i] : i \in 1..Len(tsunami_zones)}
        IN  \A box \in boxes :
                /\ box[1] <= box[2]
                /\ box[3] <= box[4]
                /\ \E la \in -90..90, lo \in -180..180 : in_box(la, lo, box)

\* C24: for every non-empty event list the reported earthquake evidence is
\* consistent with the reported level: the decision table applied to the
\* returned max_magnitude (rounded to one decimal) and the returned
\* total_events gives the returned risk_level; a record with max_magnitude
\* 7.0 has risk_level very_high.
C24_EvidenceMatchesLevel ==
    (pc = "tsunami" /\ Len(usgs_response.features) > 0) =>
        LET mag == earthquake.max_magnitude      \* tenths
            n == earthquake.total_events
            level == IF mag >= 70 \/ n > 50 THEN "very_high"
                     ELSE IF mag >= 60 \/ n > 20 THEN "high"
                     ELSE IF mag >= 50 \/ n > 10 THEN "moderate"
                     ELSE IF n > 5 THEN "low"
                     ELSE "very_low"
        IN  /\ earthquake.risk_level = level
            /\ mag = 70 => earthquake.risk_level = "very_high"

\* C25: rounding before bucketing does not change the label: for every
\* combination of six valid risk levels the risk_summary, which is taken
\* from the rounded overall_risk_score, is the bucket (< 2, < 4, < 6, < 8,
\* else) of the exact, unrounded weighted mean.
C25_RoundingKeepsBucket ==
    pc = "done" =>
        LET table == [very_low |-> 10, low |-> 30, moderate |-> 50,
                      high |-> 75, very_high |-> 100]
            \* 900 times the exact mean: 2 eq + 1.5 ts + 1.5 cy + 2 fl + dr + ls
            total == 20 * table[earthquake.risk_level]
                     + 15 * table[tsunami.risk_level]
                     + 15 * table[cyclone.risk_level]
                     + 20 * table[flood.risk_level]
                     + 10 * table[drought.risk_level]
                     + 10 * table[landslide.risk_level]
            bucket == IF total < 2 * 900 THEN "very_low"
                      ELSE IF total < 4 * 900 THEN "low"
                      ELSE IF total < 6 * 900 THEN "moderate"
                      ELSE IF total < 8 * 900 THEN "high"
                      ELSE "very_high"
        IN  formatted.risk_summary = bucket

\* C26: drought evidence does not depend on the length of the observation
\* window: when the window covers whole calendar years that all have the
\* same yearly rainfall R and the same yearly ET0 E, get_climate_profile
\* followed by the drought assessment reports water_deficit_mm = R - E and
\* the risk level that the window of the first year alone gets.
C26_WindowLengthIndependent ==
    (pc \in {"landslide", "compose", "osm", "format", "done"}
        /\ entry = "get_city_profile") =>
        LET data == archive_response.daily
            days == 1..Len(data.time)
            of_year(y) == {i \in days : data.time[i].year = y}
            years == {data.time[i].year : i \in days}
            rain(y) == SumAt(data.precipitation_sum, of_year(y))
            et0(y) == SumAt(data.et0_fao_evapotranspiration, of_year(y))
            first == [i \in 1..Cardinality(of_year(FirstYear)) |-> i]
            cut(column) == [i \in DOMAIN first |-> column[i]]
            first_year == [c \in DOMAIN data |-> cut(data[c])]
            alone == drought_record(disaster_view(climate_profile_of(first_year)))
        IN  (\A y \in years : rain(y) = rain(FirstYear) /\ et0(y) = et0(FirstYear))
                => /\ drought.water_deficit_mm = rain(FirstYear) - et0(FirstYear)
                   /\ drought.risk_level = alone.risk_level

\* C27: whenever get_climate_profile returns, wettest_month and driest_month
\* each name a month with at least one non-missing precipitation reading in
\* the input, and hottest_month and coldest_month a month with at least one
\* non-missing daily maximum: a month that only holds the 0.0 placeholder is
\* never selected.
C27_ExtremeMonthsObserved ==
    pc = "returned" =>
        LET data == archive_response.daily
            observed(name, column) ==
                \E i \in 1..Len(data.time) :
                    /\ months[data.time[i].month] = name
                    /\ data[column][i] # Null
        IN  /\ observed(profile.wettest_month, "precipitation_sum")
            /\ observed(profile.driest_month, "precipitation_sum")
            /\ observed(profile.hottest_month, "temperature_2m_max")
            /\ observed(profile.coldest_month, "temperature_2m_max")

\* C28: the hazard records of one get_disaster_profile call share the grid
\* and the climate profile and so agree with each other: whenever the flood
\* risk is very_high, tsunami coastal_city is true (tsunami risk moderate or
\* high) and landslide high_rainfall is true (landslide risk moderate or
\* high).
C28_RecordsAgree ==
    (pc \in {"compose", "format", "done"} /\ flood.risk_level = "very_high") =>
        /\ tsunami.coastal_city
        /\ tsunami.risk_level \in {"moderate", "high"}
        /\ landslide.high_rainfall
        /\ landslide.risk_level \in {"moderate", "high"}

\* two of three samples below 10 m and 1500.5 mm of rain
C28_Witness ==
    /\ pc = "done"
    /\ elevation_grid = <<9, 310, 9>>
    /\ climate_profile.annual_rainfall_mm = 15005
    /\ flood.risk_level = "very_high"
    /\ tsunami.coastal_city
    /\ landslide.high_rainfall
    /\ landslide.risk_level = "high"

\* C29: every risk_level that the six assessors produce is one of the five
\* valid levels; tsunami and cyclone are one of very_low, moderate, high,
\* flood and drought one of low, moderate, high, very_high, and landslide one
\* of low, moderate, high.  So the 5.0 default is never used inside
\* get_disaster_profile, and the overall_risk_score it returns is never
\* below 1.9 and never above 8.9.
C29_LevelsPerHazard ==
    LET after(steps) == pc \in steps \cup {"compose", "format", "done"}
    IN  /\ after({"tsunami", "cyclone", "flood", "drought", "landslide"}) =>
               earthquake.risk_level \in
                   {"very_low", "low", "moderate", "high", "very_high"}
        /\ after({"cyclone", "flood", "drought", "landslide"}) =>
               tsunami.risk_level \in {"very_low", "moderate", "high"}
        /\ after({"flood", "drought", "landslide"}) =>
               cyclone.risk_level \in {"very_low", "moderate", "high"}
        /\ after({"drought", "landslide"}) =>
               flood.risk_level \in {"low", "moderate", "high", "very_high"}
        /\ after({"landslide"}) =>
               drought.risk_level \in {"low", "moderate", "high", "very_high"}
        /\ after({}) =>
               landslide.risk_level \in {"low", "moderate", "high"}
        /\ pc \in {"format", "done"} =>
               /\ overall_risk_score >= 19
               /\ overall_risk_score <= 89

\* an inland site outside every zone, flat and dry: the lowest level of
\* every hazard and the lowest score
C29_Witness ==
    /\ pc = "done"
    /\ earthquake.risk_level = "very_low"
    /\ tsunami.risk_level = "very_low"
    /\ cyclone.risk_level = "very_low"
    /\ flood.risk_level = "low"
    /\ drought.risk_level = "low"
    /\ landslide.risk_level = "low"
    /\ overall_risk_score = 19

\* C30: for any sequence of get_climate_profile calls on one ClimateService,
\* whatever the outcome of each call (success, HTTP error status, or an
\* exception raised by the request), two consecutive weather-archive
\* requests are at least min_request_interval (1.0 s) apart, measured from
\* the end of the earlier request to the start of the later one.
C30_RequestsSpaced ==
    \A i \in 1..(Len(request_times) - 1) :
        request_times[i + 1][1] - request_times[i][2] >= min_request_interval

====
